---- MODULE Spec2Model ----
(***************************************************************************)
(* The quantitative core of the repository: position construction and     *)
(* equity curves (signals/backtest.py), the forward-return evaluator       *)
(* (signals/evaluation.py), the indicator engine (signals/indicators.py)   *)
(* and the sweep engine (signals/sweep.py).                                *)
(*                                                                         *)
(* Series are sequences; pandas' 0-based index i is index i + 1 here.      *)
(* Floating-point numbers are pairs <<m, e>> standing for m * 2^e, every   *)
(* operation is correctly rounded (round half to even) to Precision bits   *)
(* as IEEE-754 does with 53 bits.                                          *)
(***************************************************************************)
EXTENDS Integers, Sequences, FiniteSets, TLC

VARIABLES
    df,       \* the caller's table: its columns, the price and the signal column
    series,   \* a series handed to a statistic of the summarizer
    call,     \* the operation called last and its arguments
    pos,      \* what build_position_from_signal returned
    bt,       \* what compute_equity_curves returned
    metrics,  \* what summarize_backtest returned
    stat,     \* what max_drawdown / sharpe_ratio returned
    summary,  \* what summarize_signal_performance returned
    sweep,    \* run_sweep: its configuration, loop position and rows
    signals,  \* what compute_signals returned
    fwd_ret,  \* what compute_forward_returns returned
    favorites, \* st.session_state.favorites of the weather app
    sidebar   \* the weather app's sidebar: its widgets and its last message

vars == <<df, series, call, pos, bt, metrics, stat, summary, sweep, signals, fwd_ret,
          favorites, sidebar>>

-----------------------------------------------------------------------------
(* Bounds of the model.                                                    *)

\* longest table of the pipeline specification
MaxLen == 3
\* longest signal series of the position specification
MaxSigLen == 7
\* longest table of the evaluation specification
MaxEvalLen == 5
\* largest cooldown_days / horizon_days a caller passes
MaxCooldown == 3
MaxHorizon == 3
MaxCallLen == 2
MaxTextLen == 2
MaxFavorites == 4
\* significand width of the floating-point arithmetic (53 in binary64)
Precision == 13

-----------------------------------------------------------------------------
(* Floating-point arithmetic.                                              *)

RECURSIVE Pow2(_)
Pow2(k) == IF k <= 0 THEN 1 ELSE 2 * Pow2(k - 1)

Abs(m) == IF m < 0 THEN -m ELSE m

Sign(m) == IF m < 0 THEN -1 ELSE 1

\* number of bits of a natural number
RECURSIVE BitLen(_)
BitLen(a) == IF a = 0 THEN 0 ELSE 1 + BitLen(a \div 2)

\* the canonical pair of m * 2^e: an odd significand, or <<0, 0>>
RECURSIVE Norm(_, _)
Norm(m, e) ==
    IF m = 0 THEN <<0, 0>>
    ELSE IF m % 2 = 0 THEN Norm(m \div 2, e + 1)
    ELSE <<m, e>>

\* not-a-number: a pair no finite value has
NaN == <<0, 1>>

IsNaN(x) == x = NaN

Zero == <<0, 0>>

One == <<1, 0>>

\* m * 2^e rounded to Precision significant bits, ties to the even significand
RoundF(m, e) ==
    LET a == Abs(m)
        k == BitLen(a) - Precision
    IN  IF k <= 0 THEN Norm(m, e)
        ELSE LET q    == a \div Pow2(k)
                 r    == a % Pow2(k)
                 half == Pow2(k - 1)
                 up   == r > half \/ (r = half /\ q % 2 = 1)
             IN  Norm(Sign(m) * (IF up THEN q + 1 ELSE q), e + k)

FNeg(x) == <<-x[1], x[2]>>

FAdd(x, y) ==
    IF IsNaN(x) \/ IsNaN(y) THEN NaN
    ELSE IF x[1] = 0 THEN y
    ELSE IF y[1] = 0 THEN x
    ELSE LET e == IF x[2] < y[2] THEN x[2] ELSE y[2]
         IN  RoundF(x[1] * Pow2(x[2] - e) + y[1] * Pow2(y[2] - e), e)

FSub(x, y) == IF IsNaN(y) THEN NaN ELSE FAdd(x, FNeg(y))

FMul(x, y) ==
    IF IsNaN(x) \/ IsNaN(y) THEN NaN
    ELSE RoundF(x[1] * y[1], x[2] + y[2])

\* the least k with a * 2^k >= b
RECURSIVE ShiftFor(_, _)
ShiftFor(a, b) == IF a >= b THEN 0 ELSE 1 + ShiftFor(2 * a, b)

\* x / y for y # 0: the quotient to Precision + 2 bits and a sticky bit
FDiv(x, y) ==
    IF IsNaN(x) \/ IsNaN(y) \/ y[1] = 0 THEN NaN
    ELSE IF x[1] = 0 THEN Zero
    ELSE LET a  == Abs(x[1])
             b  == Abs(y[1])
             k  == ShiftFor(a, b * Pow2(Precision + 1))
             q  == (a * Pow2(k)) \div b
             st == IF (a * Pow2(k)) % b = 0 THEN 0 ELSE 1
         IN  RoundF(Sign(x[1]) * Sign(y[1]) * (2 * q + st), x[2] - y[2] - k - 1)

\* x < y on finite values
FLess(x, y) ==
    LET e == IF x[2] < y[2] THEN x[2] ELSE y[2]
    IN  x[1] * Pow2(x[2] - e) < y[1] * Pow2(y[2] - e)

FLeq(x, y) == x = y \/ FLess(x, y)

\* the float of an integer
FInt(n) == RoundF(n, 0)

-----------------------------------------------------------------------------
(* Series helpers (pandas operations used by the core).                    *)

Idx(s) == 1 .. Len(s)

Min2(a, b) == IF a < b THEN a ELSE b

Max2(a, b) == IF a > b THEN a ELSE b

\* Series.fillna(0.0)
FillNa0(s) == [i \in Idx(s) |-> IF IsNaN(s[i]) THEN Zero ELSE s[i]]

\* Series.pct_change(): s / s.shift(1) - 1, not-a-number on the first row
PctChange(s) ==
    [i \in Idx(s) |-> IF i = 1 THEN NaN ELSE FSub(FDiv(s[i], s[i - 1]), One)]

\* a variant that accumulates a sum
RECURSIVE CumSumUpTo(_, _)
CumSumUpTo(s, i) ==
    IF i = 1 THEN s[1] ELSE FAdd(CumSumUpTo(s, i - 1), s[i])

CumSum(s) == [i \in Idx(s) |-> CumSumUpTo(s, i)]

\* Series.cumprod(): the running product, left to right
RECURSIVE CumProdUpTo(_, _)
CumProdUpTo(s, i) ==
    IF i = 1 THEN s[1] ELSE FMul(CumProdUpTo(s, i - 1), s[i])

CumProd(s) == [i \in Idx(s) |-> CumProdUpTo(s, i)]

\* a variant that keeps the running minimum
RECURSIVE CumMinUpTo(_, _)
CumMinUpTo(s, i) ==
    IF i = 1 THEN s[1]
    ELSE LET m == CumMinUpTo(s, i - 1) IN IF FLess(s[i], m) THEN s[i] ELSE m

CumMin(s) == [i \in Idx(s) |-> CumMinUpTo(s, i)]

\* Series.cummax(): the running maximum
RECURSIVE CumMaxUpTo(_, _)
CumMaxUpTo(s, i) ==
    IF i = 1 THEN s[1]
    ELSE LET m == CumMaxUpTo(s, i - 1) IN IF FLess(m, s[i]) THEN s[i] ELSE m

CumMax(s) == [i \in Idx(s) |-> CumMaxUpTo(s, i)]

\* Series.min() of a series without missing values, not-a-number when empty
RECURSIVE MinUpTo(_, _)
MinUpTo(s, i) ==
    IF i = 1 THEN s[1]
    ELSE LET m == MinUpTo(s, i - 1) IN IF FLess(s[i], m) THEN s[i] ELSE m

SeriesMin(s) == IF Len(s) = 0 THEN NaN ELSE MinUpTo(s, Len(s))

\* Series.sum(): left to right from 0.0
RECURSIVE SumUpTo(_, _)
SumUpTo(s, i) == IF i = 0 THEN Zero ELSE FAdd(SumUpTo(s, i - 1), s[i])

SeriesSum(s) == SumUpTo(s, Len(s))

\* Series.mean(): not-a-number when empty
SeriesMean(s) ==
    IF Len(s) = 0 THEN NaN ELSE FDiv(SeriesSum(s), FInt(Len(s)))

-----------------------------------------------------------------------------
(* signals/backtest.py                                                     *)

\* a variant without fillna(False): a missing cell is truthy
SigBoolTruthy(signal) == [i \in Idx(signal) |-> signal[i] # "False"]

\* signal.fillna(False).astype(bool): a missing cell is no signal
SigBool(signal) == [i \in Idx(signal) |-> signal[i] = "True"]

\* the loop of build_position_from_signal from row i on (lines 31-39):
\* a signal at row i puts rows i+1 .. min(i + cooldown_days, n) in cash
RECURSIVE PositionLoop(_, _, _, _)
PositionLoop(sig, cooldown_days, i, p) ==
    IF i > Len(sig) THEN p
    ELSE IF ~sig[i] THEN PositionLoop(sig, cooldown_days, i + 1, p)
    ELSE LET start == i + 1
             end   == Min2(i + cooldown_days, Len(sig))
             next  == IF start <= Len(sig)
                      THEN [k \in Idx(sig) |->
                               IF k \in start .. end THEN Zero ELSE p[k]]
                      ELSE p
         IN  PositionLoop(sig, cooldown_days, i + 1, next)

\* a variant whose cash window opens on the signal's own row
build_position_same_day(signal, cooldown_days) ==
    IF cooldown_days <= 0
    THEN [err |-> "ValueError", val |-> <<>>]
    ELSE [err |-> "none",
          val |-> [k \in Idx(signal) |->
                     IF \E t \in Idx(signal) :
                           signal[t] = "True" /\ t <= k /\ k < t + cooldown_days
                     THEN Zero ELSE One]]

\* a variant that counts the cash days down and adds cooldown_days per signal
RECURSIVE AdditiveLoop(_, _, _, _, _)
AdditiveLoop(sig, cooldown_days, i, remaining, p) ==
    IF i > Len(sig) THEN p
    ELSE LET cash == remaining > 0
             left == (IF cash THEN remaining - 1 ELSE 0)
                     + (IF sig[i] THEN cooldown_days ELSE 0)
         IN  AdditiveLoop(sig, cooldown_days, i + 1, left,
                          IF cash THEN [p EXCEPT ![i] = Zero] ELSE p)

build_position_additive(signal, cooldown_days) ==
    IF cooldown_days <= 0
    THEN [err |-> "ValueError", val |-> <<>>]
    ELSE [err |-> "none",
          val |-> AdditiveLoop(SigBool(signal), cooldown_days, 1, 0,
                               [k \in Idx(signal) |-> One])]

\* a variant that clamps a non-positive cooldown_days to one day
build_position_clamped(signal, cooldown_days) ==
    LET sig  == SigBool(signal)
        ones == [k \in Idx(sig) |-> One]
    IN  [err |-> "none",
         val |-> PositionLoop(sig, Max2(cooldown_days, 1), 1, ones)]

build_position_from_signal(signal, cooldown_days) ==
    IF cooldown_days <= 0
    THEN [err |-> "ValueError", val |-> <<>>]
    ELSE LET sig  == SigBool(signal)
             ones == [k \in Idx(sig) |-> One]
         IN  [err |-> "none", val |-> PositionLoop(sig, cooldown_days, 1, ones)]

\* a variant that reads the return of the following row
DailyRetForward(price) ==
    [i \in Idx(price) |->
        IF i = Len(price) THEN Zero
        ELSE FSub(FDiv(price[i + 1], price[i]), One)]

\* price.pct_change().fillna(0.0)
DailyRet(price) == FillNa0(PctChange(price))

\* a variant that hands back an empty frame where the code raises
EmptyFrame(e) ==
    [err |-> "none", daily_ret |-> <<>>, position |-> <<>>, strat_ret |-> <<>>,
     bh_equity |-> <<>>, strat_equity |-> <<>>]

\* the frame compute_equity_curves returns, or the error it raises
NoFrame(e) ==
    [err |-> e, daily_ret |-> <<>>, position |-> <<>>, strat_ret |-> <<>>,
     bh_equity |-> <<>>, strat_equity |-> <<>>]

compute_equity_curves(d, cooldown_days) ==
    IF "Adj Close" \notin d.columns THEN NoFrame("ValueError")
    ELSE IF "signal" \notin d.columns THEN NoFrame("ValueError")
    ELSE LET price     == d.price
             daily_ret == DailyRet(price)
             built     == build_position_from_signal(d.signal, cooldown_days)
         IN  IF built.err # "none" THEN NoFrame(built.err)
             ELSE LET position  == built.val
                      strat_ret == [i \in Idx(price) |->
                                       FMul(daily_ret[i], position[i])]
                      bh_equity == CumProd([i \in Idx(price) |->
                                       FAdd(One, daily_ret[i])])
                      strat_equity == CumProd([i \in Idx(price) |->
                                       FAdd(One, strat_ret[i])])
                  IN  [err |-> "none", daily_ret |-> daily_ret,
                       position |-> position, strat_ret |-> strat_ret,
                       bh_equity |-> bh_equity, strat_equity |-> strat_equity]

\* a variant that leaves out the - 1.0
DrawdownNoOffset(equity) ==
    LET peak == CumMax(equity)
    IN  [i \in Idx(equity) |-> FDiv(equity[i], peak[i])]

\* the drawdown series of max_drawdown (lines 92-93)
Drawdown(equity) ==
    LET peak == CumMax(equity)
    IN  [i \in Idx(equity) |-> FSub(FDiv(equity[i], peak[i]), One)]

max_drawdown(equity) == SeriesMin(Drawdown(equity))

\* annualized_return: 0.0 below two rows, else (1 + total_return) ** (1 /
\* years) - 1 with years = (len - 1) / 252; the power is left unevaluated as
\* its base and the number of periods
annualized_return(equity) ==
    IF Len(equity) < 2 THEN [base |-> One, periods |-> 0]
    ELSE [base |-> FAdd(One, FSub(FDiv(equity[Len(equity)], equity[1]), One)),
          periods |-> Len(equity) - 1]

\* Series.var(ddof=0) as pandas computes it: the mean, the squared
\* deviations from it, their sum over the count; not-a-number when empty
Variance(s) ==
    IF Len(s) = 0 THEN NaN
    ELSE LET avg == FDiv(SeriesSum(s), FInt(Len(s)))
             sqr == [i \in Idx(s) |->
                        LET dev == FSub(avg, s[i]) IN FMul(dev, dev)]
         IN  FDiv(SeriesSum(sqr), FInt(Len(s)))

\* annualized_volatility: sqrt(variance) * sqrt(252), kept as the variance
annualized_volatility(daily_returns) == [var |-> Variance(daily_returns)]

\* sharpe_ratio at the default risk-free rate 0.0 (rf_daily = 0.0): 0.0 when
\* the standard deviation is 0 or not-a-number, else mean / vol * sqrt(252),
\* kept as the pair (num, var) standing for num / sqrt(var) * sqrt(252);
\* sqrt(var) = 0 exactly when var = 0
sharpe_ratio(daily_returns) ==
    LET rf_daily == Zero
        excess   == [i \in Idx(daily_returns) |->
                        FSub(daily_returns[i], rf_daily)]
        var      == Variance(excess)
    IN  IF var = Zero \/ IsNaN(var) THEN [num |-> Zero, var |-> One]
        ELSE [num |-> SeriesMean(excess), var |-> var]

\* the metrics table of summarize_backtest, one entry per column, or the
\* IndexError of .iloc[-1] on an empty frame
summarize_backtest(b) ==
    LET bh_eq  == b.bh_equity
        st_eq  == b.strat_equity
        bh_ret == b.daily_ret
        st_ret == b.strat_ret
    IN  IF Len(bh_eq) = 0 THEN [err |-> "IndexError", table |-> <<>>]
        ELSE [err |-> "none",
              table |->
                [portfolio    |-> <<"buy_hold", "strategy">>,
                 total_return |-> <<FSub(bh_eq[Len(bh_eq)], One),
                                    FSub(st_eq[Len(st_eq)], One)>>,
                 ann_return   |-> <<annualized_return(bh_eq),
                                    annualized_return(st_eq)>>,
                 ann_vol      |-> <<annualized_volatility(bh_ret),
                                    annualized_volatility(st_ret)>>,
                 max_drawdown |-> <<max_drawdown(bh_eq), max_drawdown(st_eq)>>,
                 sharpe       |-> <<sharpe_ratio(bh_ret), sharpe_ratio(st_ret)>>]]

-----------------------------------------------------------------------------
(* Tables are objects: a function that assigns columns to the table it was *)
(* handed changes the caller's table, one that assigns to a copy does not. *)

\* a variant that binds the name to the caller's table itself (out = df)
DataFrameAlias(d) == [same |-> TRUE, table |-> d]

\* df.copy(): a new table with the columns and the values of d
DataFrameCopy(d) == [same |-> FALSE, table |-> d]

\* the caller's table d once column assignments have left out as written
CallerTable(d, out, written) == IF out.same THEN written ELSE d

-----------------------------------------------------------------------------
(* signals/evaluation.py                                                   *)

\* adj_close.shift(-horizon_days): the price horizon_days rows later,
\* not-a-number on the last rows
ShiftBack(s, k) ==
    [i \in Idx(s) |-> IF i + k \in Idx(s) THEN s[i + k] ELSE NaN]

compute_forward_returns(adj_close, horizon_days) ==
    IF horizon_days <= 0
    THEN [err |-> "ValueError", val |-> <<>>]
    ELSE LET future_price == ShiftBack(adj_close, horizon_days)
         IN  [err |-> "none",
              val |-> [i \in Idx(adj_close) |->
                          FSub(FDiv(future_price[i], adj_close[i]), One)]]

\* the values of s on the rows in keep, in row order
RECURSIVE SelectFrom(_, _, _)
SelectFrom(s, keep, i) ==
    IF i > Len(s) THEN <<>>
    ELSE IF i \in keep THEN <<s[i]>> \o SelectFrom(s, keep, i + 1)
    ELSE SelectFrom(s, keep, i + 1)

Select(s, keep) == SelectFrom(s, keep, 1)

\* a variant that keeps every row
KeepAllRows(fwd) == Idx(fwd)

\* tmp.dropna(subset=[fwd column]): the rows whose forward return is defined
DropNa(fwd) == {i \in Idx(fwd) : ~IsNaN(fwd[i])}

\* s in ascending order
RECURSIVE InsertSorted(_, _)
InsertSorted(x, s) ==
    IF Len(s) = 0 THEN <<x>>
    ELSE IF FLeq(x, Head(s)) THEN <<x>> \o s
    ELSE <<Head(s)>> \o InsertSorted(x, Tail(s))

RECURSIVE SortSeries(_)
SortSeries(s) ==
    IF Len(s) = 0 THEN <<>> ELSE InsertSorted(Head(s), SortSeries(Tail(s)))

\* a variant that reports 0 for an empty series
SeriesMedianOrZero(s) ==
    IF Len(s) = 0 THEN Zero
    ELSE LET t == SortSeries(s)
             h == Len(s) \div 2
         IN  IF Len(s) % 2 = 1 THEN t[h + 1]
             ELSE FDiv(FAdd(t[h], t[h + 1]), FInt(2))

\* Series.median(): the middle value, the mean of the two middle values for
\* an even count, not-a-number when empty
SeriesMedian(s) ==
    IF Len(s) = 0 THEN NaN
    ELSE LET t == SortSeries(s)
             h == Len(s) \div 2
         IN  IF Len(s) % 2 = 1 THEN t[h + 1]
             ELSE FDiv(FAdd(t[h], t[h + 1]), FInt(2))

NoSummary(e) ==
    [err |-> e, group |-> <<>>, count |-> <<>>,
     mean_fwd_return |-> <<>>, median_fwd_return |-> <<>>]

summarize_signal_performance(d, horizon_days) ==
    IF "Adj Close" \notin d.columns THEN NoSummary("ValueError")
    ELSE IF "signal" \notin d.columns THEN NoSummary("ValueError")
    ELSE LET adj == d.price
             fwd == compute_forward_returns(adj, horizon_days)
         IN  IF fwd.err # "none" THEN NoSummary(fwd.err)
             ELSE LET rows    == DropNa(fwd.val)
                      sig     == Select(fwd.val,
                                   {i \in rows : d.signal[i] = "True"})
                      nonsig  == Select(fwd.val,
                                   {i \in rows : d.signal[i] = "False"})
                      overall == Select(fwd.val, rows)
                  IN  [err |-> "none",
                       group |-> <<"signal_days", "non_signal_days", "overall">>,
                       count |-> <<Len(sig), Len(nonsig), Len(overall)>>,
                       mean_fwd_return |->
                           <<SeriesMean(sig), SeriesMean(nonsig),
                             SeriesMean(overall)>>,
                       median_fwd_return |->
                           <<SeriesMedian(sig), SeriesMedian(nonsig),
                             SeriesMedian(overall)>>]

\* the caller's table after summarize_signal_performance: the forward-return
\* column is assigned to tmp, the copy of line 55; the raises of lines 44-47
\* and 53 come before it
summarize_signal_performance_df(d, horizon_days) ==
    IF ~({"Adj Close", "signal"} \subseteq d.columns) \/ horizon_days <= 0
    THEN d
    ELSE CallerTable(d, DataFrameCopy(d),
                     [d EXCEPT !.columns = @ \cup {"fwd_ret"}])

-----------------------------------------------------------------------------
(* signals/indicators.py                                                   *)

\* IndicatorConfig.vol_window, the default run_sweep leaves in place
DefaultVolWindow == 20

\* Series.rolling(window).mean(): the mean of the last window rows, not-a-
\* number until the window fills. The window's sum is taken exactly: the
\* prices of the model are small integers, whose sums no rounding touches.
RECURSIVE WindowSum(_, _, _)
WindowSum(s, i, window) ==
    IF window = 0 THEN Zero
    ELSE FAdd(WindowSum(s, i - 1, window - 1), s[i])

\* the mean of the rows seen so far while the window fills (min_periods = 1)
compute_moving_average_partial(s, window) ==
    [i \in Idx(s) |->
        IF window >= 1
        THEN FDiv(WindowSum(s, i, Min2(i, window)), FInt(Min2(i, window)))
        ELSE NaN]

compute_moving_average(s, window) ==
    [i \in Idx(s) |->
        IF window >= 1 /\ i >= window
        THEN FDiv(WindowSum(s, i, window), FInt(window))
        ELSE NaN]

FAbs(x) == IF IsNaN(x) THEN NaN ELSE <<Abs(x[1]), x[2]>>

\* x >= y as the floats compare
FGreaterEq(x, y) == ~IsNaN(x) /\ ~IsNaN(y) /\ FLeq(y, x)

\* x > y as the floats compare: false when either is not-a-number
FGreater(x, y) == ~IsNaN(x) /\ ~IsNaN(y) /\ FLess(y, x)

\* IndicatorConfig() (lines 9-15)
IndicatorConfig ==
    [vol_window |-> DefaultVolWindow, ma_short |-> 10, ma_long |-> 30,
     deviation_threshold |-> FDiv(FInt(3), FInt(100))]

\* Series.rolling(window=window): pandas raises ValueError ("window must be
\* an integer 0 or greater") for a negative window; a window of 0 is taken
RollingError(window) == window < 0

\* compute_signals raised e, or has not been called
NoSignals(e) ==
    [err |-> e, columns |-> {}, price |-> <<>>, signal |-> <<>>,
     returns |-> <<>>, volatility_defined |-> <<>>, ma_short |-> <<>>,
     ma_long |-> <<>>, deviation |-> <<>>]

\* out["deviation"] (line 66)
Deviation(adj_close, ma_long) ==
    [i \in Idx(adj_close) |->
        FDiv(FSub(adj_close[i], ma_long[i]), ma_long[i])]

\* out["signal"] (line 69): a comparison with not-a-number is False
SignalFlag(deviation, deviation_threshold) ==
    [i \in Idx(deviation) |->
        IF FGreater(FAbs(deviation[i]), deviation_threshold)
        THEN "True" ELSE "False"]

\* the frame compute_signals returns: the table's columns and the indicator
\* columns (the rolling volatility is kept as the rows on which it is
\* defined: window rows of returns, at least two of them), or the error of
\* the first line that raises: the KeyError of line 51 for a table without
\* its price column, the ValueError of a negative rolling window (lines 59,
\* 62, 63)
compute_signals(d, cfg) ==
    IF "Adj Close" \notin d.columns THEN NoSignals("KeyError")
    ELSE IF RollingError(cfg.vol_window) \/ RollingError(cfg.ma_short)
            \/ RollingError(cfg.ma_long)
    THEN NoSignals("ValueError")
    ELSE LET ma_long   == compute_moving_average(d.price, cfg.ma_long)
             deviation == Deviation(d.price, ma_long)
         IN  [err |-> "none",
              columns |-> d.columns \cup {"returns", "volatility", "ma_short",
                                          "ma_long", "deviation", "signal"},
              price |-> d.price,
              returns |-> PctChange(d.price),
              volatility_defined |->
                  [i \in Idx(d.price) |->
                      cfg.vol_window >= 2 /\ i >= cfg.vol_window + 1],
              ma_short |-> compute_moving_average(d.price, cfg.ma_short),
              ma_long |-> ma_long,
              deviation |-> deviation,
              signal |-> SignalFlag(deviation, cfg.deviation_threshold)]

\* the caller's table after compute_signals: every column is assigned to
\* out, the copy of line 50, up to the line that raises
compute_signals_df(d, cfg) ==
    LET out == DataFrameCopy(d)
        r   == compute_signals(d, cfg)
    IN  IF "Adj Close" \notin d.columns THEN CallerTable(d, out, d)
        ELSE IF RollingError(cfg.vol_window)
        THEN CallerTable(d, out, [d EXCEPT !.columns = @ \cup {"returns"}])
        ELSE IF RollingError(cfg.ma_short)
        THEN CallerTable(d, out,
                 [d EXCEPT !.columns = @ \cup {"returns", "volatility"}])
        ELSE IF RollingError(cfg.ma_long)
        THEN CallerTable(d, out,
                 [d EXCEPT !.columns =
                               @ \cup {"returns", "volatility", "ma_short"}])
        ELSE CallerTable(d, out,
                 [d EXCEPT !.columns = r.columns, !.signal = r.signal])

-----------------------------------------------------------------------------
(* signals/sweep.py                                                        *)

\* the rows of a table whose column has the value (boolean indexing)
RowsWhere(table, column, value) ==
    {k \in Idx(table[column]) : table[column][k] = value}

Least(S) == CHOOSE k \in S : \A l \in S : k <= l

\* the row run_sweep appends for one cell (lines 46-62)
SweepRow(dev, cd, sig_count, table, strat, bh) ==
    [dev_pct |-> dev,
     cooldown_days |-> cd,
     signal_count |-> sig_count,
     strategy_total_return |-> table["Total Return"][strat],
     strategy_sharpe |-> table["Sharpe"][strat],
     strategy_max_dd |-> table["Max Drawdown"][strat],
     buyhold_total_return |-> table["Total Return"][bh],
     buyhold_sharpe |-> table["Sharpe"][bh],
     delta_total_return |->
         FSub(table["Total Return"][strat], table["Total Return"][bh]),
     delta_sharpe |-> <<table["Sharpe"][strat], table["Sharpe"][bh]>>]

\* lines 41-62 of a cell: the lookups in the metrics table and the row, or
\* the KeyError / IndexError of a lookup that finds nothing
RowOfMetrics(m, dev, cd, sig_count) ==
    IF m.err # "none" THEN [err |-> m.err, row |-> <<>>]
    ELSE IF "Portfolio" \notin DOMAIN m.table
    THEN [err |-> "KeyError", row |-> <<>>]
    ELSE IF RowsWhere(m.table, "Portfolio", "Tactical Risk-Off") = {}
            \/ RowsWhere(m.table, "Portfolio", "Buy & Hold") = {}
    THEN [err |-> "IndexError", row |-> <<>>]
    ELSE IF ~({"Total Return", "Sharpe", "Max Drawdown"}
                 \subseteq DOMAIN m.table)
    THEN [err |-> "KeyError", row |-> <<>>]
    ELSE [err |-> "none",
          row |-> <<SweepRow(dev, cd, sig_count, m.table,
                      Least(RowsWhere(m.table, "Portfolio",
                                      "Tactical Risk-Off")),
                      Least(RowsWhere(m.table, "Portfolio", "Buy & Hold")))>>]

\* lines 39-62 of a cell, given the frame of line 38
RowOfFrame(b, dev, cd, sig_count) ==
    IF b.err # "none" THEN [err |-> b.err, row |-> <<>>]
    ELSE RowOfMetrics(summarize_backtest(b), dev, cd, sig_count)

\* one cell of the grid (lines 38-62): the error it raises, or the row
SweepCellResult(sig_df, dev, cd, sig_count) ==
    RowOfFrame(compute_equity_curves(sig_df, cd), dev, cd, sig_count)

\* run_sweep after the signals of a threshold (lines 33-34)
AfterSignals(sw, sig_df) ==
    IF sig_df.err # "none"
    THEN [sw EXCEPT !.pc = "raised", !.err = sig_df.err]
    ELSE [sw EXCEPT !.pc = "cell", !.j = 1,
                    !.sig_signal = sig_df.signal,
                    !.sig_count = Cardinality({k \in Idx(sig_df.signal) :
                                                  sig_df.signal[k] = "True"})]

\* a variant that leaves a failing cell out and goes on to the next
AfterCellSkip(sw, cell) ==
    IF cell.err # "none"
    THEN [sw EXCEPT !.j = @ + 1]
    ELSE [sw EXCEPT !.j = @ + 1, !.results = @ \o cell.row]

\* run_sweep after a cell: the error propagates, or the row is appended
AfterCell(sw, cell) ==
    IF cell.err # "none"
    THEN [sw EXCEPT !.pc = "raised", !.err = cell.err]
    ELSE [sw EXCEPT !.j = @ + 1, !.results = @ \o cell.row]

-----------------------------------------------------------------------------
(* app.py: the favorites of the weather app. A text is the sequence of its *)
(* characters.                                                             *)

\* st.session_state.favorites on the first run (lines 129-130)
DefaultFavorites ==
    <<<<"D", "e", "l", "h", "i">>,
      <<"N", "e", "w", " ", "Y", "o", "r", "k">>,
      <<"L", "o", "n", "d", "o", "n">>>>

RECURSIVE LStrip(_)
LStrip(text) ==
    IF text # <<>> /\ Head(text) = " " THEN LStrip(Tail(text)) ELSE text

RECURSIVE RStrip(_)
RStrip(text) ==
    IF text # <<>> /\ text[Len(text)] = " "
    THEN RStrip(SubSeq(text, 1, Len(text) - 1))
    ELSE text

\* str.strip(): the text without its leading and trailing blanks
Strip(text) == RStrip(LStrip(text))

\* c in st.session_state.favorites
InList(c, favs) == \E k \in Idx(favs) : favs[k] = c

\* list.remove(x): the list without the first occurrence of x
ListRemove(favs, x) ==
    LET k == CHOOSE k \in Idx(favs) :
                 favs[k] = x /\ \A l \in 1 .. k - 1 : favs[l] # x
    IN  SubSeq(favs, 1, k - 1) \o SubSeq(favs, k + 1, Len(favs))

\* the "Add to favorites" button (lines 141-149): the list and the message
add_to_favorites(favs, add_city) ==
    LET c == Strip(add_city)
    IN  IF c # <<>> /\ ~InList(c, favs)
        THEN [favorites |-> <<c>> \o favs, message |-> "Added."]
        ELSE IF InList(c, favs)
        THEN [favorites |-> favs, message |-> "Already in favorites."]
        ELSE [favorites |-> favs, message |-> "Type a city name first."]

\* a variant that removes the selection whatever the length of the list
remove_last_favorite_too(favs, fav) ==
    IF InList(fav, favs)
    THEN [favorites |-> ListRemove(favs, fav), message |-> "Removed."]
    ELSE [favorites |-> favs, message |-> "Keep at least one favorite."]

\* the "Remove selected favorite" button (lines 151-156)
remove_selected_favorite(favs, fav) ==
    IF InList(fav, favs) /\ Len(favs) > 1
    THEN [favorites |-> ListRemove(favs, fav), message |-> "Removed."]
    ELSE [favorites |-> favs, message |-> "Keep at least one favorite."]

\* the sidebar before any button is pressed
NoSidebar ==
    [button |-> "none", fav |-> DefaultFavorites[1], add_city |-> <<>>,
     message |-> "none"]

-----------------------------------------------------------------------------
(* The state of a caller and the inputs it draws.                          *)

SeqsUpTo(S, n) == UNION {[1 .. k -> S] : k \in 0 .. n}

\* a signal cell: a boolean, or missing
SignalValues == {"True", "False", "NaN"}

CooldownArgs == -1 .. MaxCooldown

HorizonArgs == -1 .. MaxHorizon

\* changed: the row a caller changed before calling again, 0 for none
NoCall ==
    [op |-> "none", cooldown_days |-> 0, horizon_days |-> 0, changed |-> 0,
     cfg |-> IndicatorConfig]

NoPos == [err |-> "none", val |-> <<>>]

NoSeries == [err |-> "none", val |-> <<>>]

NoMetrics == [err |-> "none", table |-> <<>>]

NoConfig == [ma_short |-> 0, ma_long |-> 0, dev_pcts |-> <<>>,
             cooldown_days |-> <<>>]

\* run_sweep not called: pc is where the call stands, i and j the threshold
\* and the cooldown of the next cell, results the rows appended so far
NoSweep ==
    [pc |-> "idle", cfg |-> NoConfig, i |-> 0, j |-> 0, sig_count |-> 0,
     sig_signal |-> <<>>, results |-> <<>>, err |-> "none"]

\* the adjusted-close prices a table holds: 3/2 is a float, 2/3 is rounded
Prices == {FInt(2), FInt(3)}

\* the tables with both columns, n rows and a boolean signal column, as
\* summarize_signal_performance expects them (evaluation.py lines 40-42)
BooleanFrames(n) ==
    {[columns |-> {"Adj Close", "signal"}, price |-> p, signal |-> s] :
        p \in [1 .. n -> Prices], s \in [1 .. n -> {"True", "False"}]}

\* the tables with a price column only
PriceFrames(n) ==
    {[columns |-> {"Adj Close"}, price |-> p, signal |-> <<>>] :
        p \in [1 .. n -> Prices]}

\* the tables with both columns and n rows
Frames(n) ==
    {[columns |-> {"Adj Close", "signal"}, price |-> p, signal |-> s] :
        p \in [1 .. n -> Prices], s \in [1 .. n -> SignalValues]}

-----------------------------------------------------------------------------
(* The position specification: build_position_from_signal on every signal  *)
(* series of up to MaxSigLen rows.                                         *)

InitPosition ==
    /\ df \in {[columns |-> {"signal"}, price |-> <<>>, signal |-> s] :
                  s \in SeqsUpTo(SignalValues, MaxSigLen)}
    /\ series = <<>>
    /\ call = NoCall
    /\ pos = NoPos
    /\ bt = NoFrame("none")
    /\ metrics = NoMetrics
    /\ stat = <<>>
    /\ summary = NoSummary("none")
    /\ signals = NoSignals("none")
    /\ fwd_ret = NoSeries
    /\ favorites = DefaultFavorites
    /\ sidebar = NoSidebar
    /\ sweep = NoSweep

BuildPosition(cooldown_days) ==
    /\ call.op = "none"
    /\ call' = [NoCall EXCEPT !.op = "build_position_from_signal",
                              !.cooldown_days = cooldown_days]
    /\ pos' = build_position_from_signal(df.signal, cooldown_days)
    /\ UNCHANGED <<df, series, bt, metrics, stat, summary, sweep, signals,
                   fwd_ret,
                   favorites, sidebar>>

NextPosition == \E cd \in CooldownArgs : BuildPosition(cd)

SpecPosition == InitPosition /\ [][NextPosition]_vars

\* the rows of a position series that are in cash
Cash(p) == {k \in Idx(p) : p[k] = Zero}

\* the rows on which a signal fired
Fired(signal) == {t \in Idx(signal) : signal[t] = "True"}

Built == call.op = "build_position_from_signal" /\ call.cooldown_days >= 1

\* C1: for cooldown_days >= 1 the position series has the signal's length, row
\* tau is 0 exactly when a signal fired at some t with t < tau <= t +
\* cooldown_days, and is 1 otherwise.
C1_PositionRule ==
    Built =>
        /\ pos.err = "none"
        /\ Len(pos.val) = Len(df.signal)
        /\ \A tau \in Idx(df.signal) :
              pos.val[tau] =
                  IF \E t \in Fired(df.signal) :
                        t < tau /\ tau <= t + call.cooldown_days
                  THEN Zero ELSE One

\* a signal whose whole window lies inside the series: its own row invested,
\* the window's last row in cash, the row after it invested
C1_Witness ==
    /\ Built
    /\ call.cooldown_days >= 2
    /\ \E t \in Fired(df.signal) :
          /\ t + call.cooldown_days < Len(df.signal)
          /\ pos.val[t] = One
          /\ pos.val[t + call.cooldown_days] = Zero
          /\ pos.val[t + call.cooldown_days + 1] = One

\* the series in which only row t fires
Only(signal, t) == [k \in Idx(signal) |-> IF k = t THEN "True" ELSE "False"]

\* C3: the cash rows of a signal series are the union of the cash rows each of
\* its signals gives alone; signals on rows 0 and 1 with cooldown_days = 3 on
\* 7 or more rows give cash on rows 1..4 exactly (rows 2..5 here).
C3_WindowsUnion ==
    Built =>
        /\ Cash(pos.val) =
              UNION {Cash(build_position_from_signal(
                              Only(df.signal, t), call.cooldown_days).val) :
                        t \in Fired(df.signal)}
        /\ (Len(df.signal) >= 7 /\ call.cooldown_days = 3
               /\ Fired(df.signal) = {1, 2})
              => Cash(pos.val) = {2, 3, 4, 5}

C3_Witness ==
    /\ Built
    /\ Len(df.signal) >= 7
    /\ call.cooldown_days = 3
    /\ Fired(df.signal) = {1, 2}
    /\ Cash(pos.val) = {2, 3, 4, 5}
    /\ pos.val[1] = One /\ pos.val[6] = One /\ pos.val[7] = One

-----------------------------------------------------------------------------
(* The pipeline specification: a caller runs compute_equity_curves on a    *)
(* table of up to MaxLen rows, changes a later row and runs it again, and  *)
(* summarizes the frame (market_app.py lines 382-385).                     *)

Init ==
    /\ df \in UNION {Frames(n) : n \in 0 .. MaxLen}
    /\ series = <<>>
    /\ call = NoCall
    /\ pos = NoPos
    /\ bt = NoFrame("none")
    /\ metrics = NoMetrics
    /\ stat = <<>>
    /\ summary = NoSummary("none")
    /\ signals = NoSignals("none")
    /\ fwd_ret = NoSeries
    /\ favorites = DefaultFavorites
    /\ sidebar = NoSidebar
    /\ sweep = NoSweep

ComputeEquityCurves(cooldown_days) ==
    /\ call.op = "none"
    /\ call' = [NoCall EXCEPT !.op = "compute_equity_curves",
                              !.cooldown_days = cooldown_days]
    /\ bt' = compute_equity_curves(df, cooldown_days)
    /\ metrics' = NoMetrics
    /\ UNCHANGED <<df, series, pos, stat, summary, sweep, signals, fwd_ret,
                   favorites, sidebar>>

\* the caller replaces the price or the signal of row j and runs
\* compute_equity_curves again with the same cooldown_days
ChangeRowAndRecompute(j, price, signal) ==
    /\ call.op = "compute_equity_curves"
    /\ call.changed = 0
    /\ bt.err = "none"
    /\ j \in Idx(df.price)
    /\ <<price, signal>> # <<df.price[j], df.signal[j]>>
    /\ df' = [df EXCEPT !.price[j] = price, !.signal[j] = signal]
    /\ call' = [call EXCEPT !.changed = j]
    /\ bt' = compute_equity_curves(df', call.cooldown_days)
    /\ metrics' = NoMetrics
    /\ UNCHANGED <<series, pos, stat, summary, sweep, signals, fwd_ret,
                   favorites, sidebar>>

SummarizeBacktest ==
    /\ call.op = "compute_equity_curves"
    /\ bt.err = "none"
    /\ call' = [call EXCEPT !.op = "summarize_backtest"]
    /\ metrics' = summarize_backtest(bt)
    /\ UNCHANGED <<df, series, pos, bt, stat, summary, sweep, signals, fwd_ret,
                   favorites, sidebar>>

Next ==
    \/ \E cd \in CooldownArgs : ComputeEquityCurves(cd)
    \/ \E j \in 1 .. MaxLen, p \in Prices, s \in SignalValues :
          ChangeRowAndRecompute(j, p, s)
    \/ SummarizeBacktest

Spec == Init /\ [][Next]_vars

\* a frame has been returned to the caller
HasFrame ==
    /\ call.op \in {"compute_equity_curves", "summarize_backtest"}
    /\ bt.err = "none"

\* C2: no look-ahead. When a caller changes the price or the signal of row j
\* and runs compute_equity_curves again, position and strat_ret are the
\* same on every row before j: two tables that agree up to row t give the same
\* position[t] and strat_ret[t].
C2_NoLookAhead ==
    [][(call.op = "compute_equity_curves" /\ call.changed = 0
          /\ call'.op = "compute_equity_curves" /\ call'.changed # 0)
         => /\ bt'.err = "none"
            /\ \A t \in 1 .. call'.changed - 1 :
                  /\ bt'.position[t] = bt.position[t]
                  /\ bt'.strat_ret[t] = bt.strat_ret[t]]_vars

\* the last row was changed; the row before it carries a signal and a return
\* of its own, and the last row is in cash on the strength of that signal
C2_Witness ==
    /\ HasFrame
    /\ Len(df.price) = 3
    /\ call.changed = 3
    /\ df.signal[2] = "True"
    /\ bt.strat_ret[2] # Zero
    /\ bt.position[3] = Zero

\* C6: both equity curves are 1.0 on the first row and on every later row t
\* bh_equity[t] = bh_equity[t-1] * (1 + daily_ret[t]) and strat_equity[t] =
\* strat_equity[t-1] * (1 + daily_ret[t] * position[t]), position[t] being
\* decided by the signals strictly before t.
C6_EquityRecurrence ==
    HasFrame =>
        /\ Len(bt.bh_equity) = Len(df.price)
        /\ Len(bt.strat_equity) = Len(df.price)
        /\ Len(df.price) >= 1 => bt.bh_equity[1] = One /\ bt.strat_equity[1] = One
        /\ \A t \in 2 .. Len(df.price) :
              /\ bt.bh_equity[t] =
                    FMul(bt.bh_equity[t - 1], FAdd(One, bt.daily_ret[t]))
              /\ bt.strat_equity[t] =
                    FMul(bt.strat_equity[t - 1],
                         FAdd(One, FMul(bt.daily_ret[t], bt.position[t])))
              /\ bt.position[t] =
                    IF \E u \in Fired(df.signal) :
                          u < t /\ t <= u + call.cooldown_days
                    THEN Zero ELSE One

\* three rows, the strategy in cash on one of them with a return it misses
C6_Witness ==
    /\ HasFrame
    /\ Len(df.price) = 3
    /\ bt.position[2] = Zero
    /\ bt.daily_ret[2] # Zero
    /\ bt.position[3] = One
    /\ bt.daily_ret[3] # Zero
    /\ bt.bh_equity[3] # bt.strat_equity[3]

AllZero(s) == \A i \in Idx(s) : s[i] = Zero

AllOne(s) == \A i \in Idx(s) : s[i] = One

\* C8 as stated: all daily returns 0 gives both equity curves 1.0 on every
\* row and a max drawdown of 0 for each curve.
C8_ZeroReturns ==
    (call.op = "summarize_backtest" /\ AllZero(bt.daily_ret)) =>
        /\ AllOne(bt.bh_equity)
        /\ AllOne(bt.strat_equity)
        /\ metrics.err = "none"
        /\ metrics.table.max_drawdown = <<Zero, Zero>>

\* C8 amended: the same for a table of at least one row.
C8_ZeroReturnsNonEmpty ==
    (call.op = "summarize_backtest" /\ AllZero(bt.daily_ret)
        /\ Len(df.price) >= 1) =>
        /\ AllOne(bt.bh_equity)
        /\ AllOne(bt.strat_equity)
        /\ metrics.err = "none"
        /\ metrics.table.max_drawdown = <<Zero, Zero>>

\* a constant price on three rows, with a signal that puts a row in cash
C8_Witness ==
    /\ call.op = "summarize_backtest"
    /\ Len(df.price) = 3
    /\ AllZero(bt.daily_ret)
    /\ bt.position[2] = Zero
    /\ metrics.err = "none"
    /\ metrics.table.max_drawdown = <<Zero, Zero>>

-----------------------------------------------------------------------------
(* The statistics specification: max_drawdown and sharpe_ratio on every    *)
(* series of up to MaxLen values.                                          *)

\* the values 0.0, 0.1, -0.1, 1/3, 1.0 and 1.5
StatValues ==
    {Zero, FDiv(One, FInt(10)), FNeg(FDiv(One, FInt(10))),
     FDiv(One, FInt(3)), One, FDiv(FInt(3), FInt(2))}

Positive(s) == \A i \in Idx(s) : FLess(Zero, s[i])

InitStats ==
    /\ df = [columns |-> {}, price |-> <<>>, signal |-> <<>>]
    /\ series \in SeqsUpTo(StatValues, MaxLen)
    /\ call = NoCall
    /\ pos = NoPos
    /\ bt = NoFrame("none")
    /\ metrics = NoMetrics
    /\ stat = <<>>
    /\ summary = NoSummary("none")
    /\ signals = NoSignals("none")
    /\ fwd_ret = NoSeries
    /\ favorites = DefaultFavorites
    /\ sidebar = NoSidebar
    /\ sweep = NoSweep

\* max_drawdown of an equity curve; equity curves are positive
MaxDrawdown ==
    /\ call.op = "none"
    /\ Positive(series)
    /\ call' = [NoCall EXCEPT !.op = "max_drawdown"]
    /\ stat' = max_drawdown(series)
    /\ UNCHANGED <<df, series, pos, bt, metrics, summary, sweep, signals,
                   fwd_ret,
                   favorites, sidebar>>

SharpeRatio ==
    /\ call.op = "none"
    /\ call' = [NoCall EXCEPT !.op = "sharpe_ratio"]
    /\ stat' = sharpe_ratio(series)
    /\ UNCHANGED <<df, series, pos, bt, metrics, summary, sweep, signals,
                   fwd_ret,
                   favorites, sidebar>>

NextStats == MaxDrawdown \/ SharpeRatio

SpecStats == InitStats /\ [][NextStats]_vars

\* s[t] is the largest of s[1..t]
AtRunningMax(s, t) == \A u \in 1 .. t : FLeq(s[u], s[t])

\* the drawdown rule on every row of the series
DrawdownRows ==
    \A t \in Idx(series) :
        /\ \E u \in 1 .. t :
              /\ \A v \in 1 .. t : FLeq(series[v], series[u])
              /\ Drawdown(series)[t] = FSub(FDiv(series[t], series[u]), One)
        /\ FLeq(Drawdown(series)[t], Zero)
        /\ Drawdown(series)[t] = Zero <=> AtRunningMax(series, t)

\* C7 as stated: on every positive equity curve drawdown[t] = equity[t] /
\* max(equity[0..t]) - 1 is <= 0, is 0 exactly at a running maximum, and
\* max_drawdown is a non-positive number.
C7_DrawdownBound ==
    call.op = "max_drawdown" =>
        /\ DrawdownRows
        /\ ~IsNaN(stat) /\ FLeq(stat, Zero)

\* C7 amended: the same for a curve of at least one row.
C7_DrawdownBoundNonEmpty ==
    (call.op = "max_drawdown" /\ Len(series) >= 1) =>
        /\ DrawdownRows
        /\ ~IsNaN(stat) /\ FLeq(stat, Zero)

\* a curve that falls below its peak and then sets a new high
C7_Witness ==
    /\ call.op = "max_drawdown"
    /\ Len(series) = 3
    /\ FLess(series[2], series[1])
    /\ FLess(series[1], series[3])
    /\ FLess(Drawdown(series)[2], Zero)
    /\ Drawdown(series)[3] = Zero
    /\ stat = Drawdown(series)[2]

Constant(s) == \A i, j \in Idx(s) : s[i] = s[j]

\* C9: sharpe_ratio of a constant series, and of the empty series, is exactly 0.
C9_SharpeZeroGuard ==
    (call.op = "sharpe_ratio" /\ Constant(series)) => stat.num = Zero

-----------------------------------------------------------------------------
(* The evaluation specification: summarize_signal_performance on every     *)
(* table of up to MaxEvalLen rows.                                         *)

InitEval ==
    /\ df \in UNION {BooleanFrames(n) : n \in 0 .. MaxEvalLen}
    /\ series = <<>>
    /\ call = NoCall
    /\ pos = NoPos
    /\ bt = NoFrame("none")
    /\ metrics = NoMetrics
    /\ stat = <<>>
    /\ summary = NoSummary("none")
    /\ signals = NoSignals("none")
    /\ fwd_ret = NoSeries
    /\ favorites = DefaultFavorites
    /\ sidebar = NoSidebar
    /\ sweep = NoSweep

SummarizeSignalPerformance(horizon_days) ==
    /\ call.op = "none"
    /\ call' = [NoCall EXCEPT !.op = "summarize_signal_performance",
                              !.horizon_days = horizon_days]
    /\ summary' = summarize_signal_performance(df, horizon_days)
    /\ df' = summarize_signal_performance_df(df, horizon_days)
    /\ UNCHANGED <<series, pos, bt, metrics, stat, sweep, signals, fwd_ret,
                   favorites, sidebar>>

NextEval == \E h \in HorizonArgs : SummarizeSignalPerformance(h)

SpecEval == InitEval /\ [][NextEval]_vars

Summarized ==
    call.op = "summarize_signal_performance" /\ call.horizon_days >= 1

\* C10: forward_return[t] = price[t+h] / price[t] - 1 is defined only on the
\* first n - h rows; the last min(h, n) rows are in no group; the overall count
\* is max(n - h, 0) and is the sum of the signal and non-signal counts; h = 2
\* on 5 rows gives an overall count of 3.
C10_ForwardReturnExclusion ==
    Summarized =>
        LET n     == Len(df.price)
            h     == call.horizon_days
            fwd   == compute_forward_returns(df.price, h).val
            valid == 1 .. Max2(n - h, 0)
        IN  /\ summary.err = "none"
            /\ Len(fwd) = n
            /\ \A t \in 1 .. n :
                  IF t \in valid
                  THEN fwd[t] = FSub(FDiv(df.price[t + h], df.price[t]), One)
                  ELSE IsNaN(fwd[t])
            /\ summary.count[3] = Max2(n - h, 0)
            /\ summary.count[1] =
                  Cardinality({t \in valid : df.signal[t] = "True"})
            /\ summary.count[2] =
                  Cardinality({t \in valid : df.signal[t] = "False"})
            /\ summary.count[1] + summary.count[2] = summary.count[3]
            /\ summary.mean_fwd_return[3] =
                  SeriesMean([t \in valid |-> fwd[t]])
            /\ (n = 5 /\ h = 2) => summary.count[3] = 3

\* five rows, horizon 2: three valid rows, some with a signal and some
\* without, and a signal on an excluded row
C10_Witness ==
    /\ Summarized
    /\ Len(df.price) = 5
    /\ call.horizon_days = 2
    /\ df.signal[5] = "True"
    /\ summary.count[1] >= 1
    /\ summary.count[2] >= 1
    /\ summary.count[3] = 3
    /\ summary.mean_fwd_return[3] # Zero

\* C20: a group with no valid row is a value, not an error: for every
\* horizon_days >= 1 summarize_signal_performance returns its three group
\* rows, and a group of count 0 has a not-a-number mean and median, not 0.
C20_DegenerateGroups ==
    Summarized =>
        /\ summary.err = "none"
        /\ summary.group = <<"signal_days", "non_signal_days", "overall">>
        /\ Len(summary.count) = 3
        /\ \A g \in 1 .. 3 :
              IF summary.count[g] = 0
              THEN /\ IsNaN(summary.mean_fwd_return[g])
                   /\ IsNaN(summary.median_fwd_return[g])
              ELSE /\ ~IsNaN(summary.mean_fwd_return[g])
                   /\ ~IsNaN(summary.median_fwd_return[g])

\* no signal on any valid row: the signal group is empty, the others are not
C20_Witness ==
    /\ Summarized
    /\ Len(df.price) = 3
    /\ call.horizon_days = 1
    /\ df.signal[3] = "True"
    /\ summary.count = <<0, 2, 2>>
    /\ IsNaN(summary.median_fwd_return[1])
    /\ ~IsNaN(summary.median_fwd_return[2])

-----------------------------------------------------------------------------
(* The sweep specification: run_sweep, one step per loop iteration, on     *)
(* every price table of up to MaxLen rows.                                 *)

ThresholdLists == {<<>>, <<1, 2, 3>>, <<3, 1>>}

CooldownLists == {<<>>, <<5, 10>>, <<2, 1>>, <<1, 0>>, <<0, 5>>}

SweepConfigs ==
    {[ma_short |-> 1, ma_long |-> w, dev_pcts |-> T, cooldown_days |-> C] :
        w \in {1, 2}, T \in ThresholdLists, C \in CooldownLists}

InitSweep ==
    /\ df \in UNION {PriceFrames(n) : n \in 0 .. MaxLen}
    /\ series = <<>>
    /\ call = NoCall
    /\ pos = NoPos
    /\ bt = NoFrame("none")
    /\ metrics = NoMetrics
    /\ stat = <<>>
    /\ summary = NoSummary("none")
    /\ signals = NoSignals("none")
    /\ fwd_ret = NoSeries
    /\ favorites = DefaultFavorites
    /\ sidebar = NoSidebar
    /\ sweep = NoSweep

\* the indicator configuration of threshold i (lines 26-30)
IndicatorConfigOf(cfg, i) ==
    [vol_window |-> DefaultVolWindow, ma_short |-> cfg.ma_short,
     ma_long |-> cfg.ma_long,
     deviation_threshold |-> FDiv(FInt(cfg.dev_pcts[i]), FInt(100))]

\* run_sweep(df, cfg) is called: results = []
RunSweep(cfg) ==
    /\ sweep.pc = "idle"
    /\ call' = [NoCall EXCEPT !.op = "run_sweep"]
    /\ sweep' = [NoSweep EXCEPT !.pc = "threshold", !.cfg = cfg, !.i = 1]
    /\ UNCHANGED <<df, series, pos, bt, metrics, stat, summary, signals,
                   fwd_ret,
                   favorites, sidebar>>

\* the head of the outer loop: the next threshold's signals, or the return
SweepThreshold ==
    /\ sweep.pc = "threshold"
    /\ IF sweep.i > Len(sweep.cfg.dev_pcts)
       THEN /\ sweep' = [sweep EXCEPT !.pc = "returned"]
            /\ df' = df
       ELSE /\ sweep' = AfterSignals(sweep,
                compute_signals(df, IndicatorConfigOf(sweep.cfg, sweep.i)))
            /\ df' = compute_signals_df(df,
                         IndicatorConfigOf(sweep.cfg, sweep.i))
    /\ UNCHANGED <<series, call, pos, bt, metrics, stat, summary, signals,
                   fwd_ret,
                   favorites, sidebar>>

\* the head of the inner loop: the next cell's row, or the next threshold
SweepCell ==
    /\ sweep.pc = "cell"
    /\ IF sweep.j > Len(sweep.cfg.cooldown_days)
       THEN sweep' = [sweep EXCEPT !.pc = "threshold", !.i = @ + 1]
       ELSE sweep' = AfterCell(sweep,
                SweepCellResult(
                    compute_signals(df, IndicatorConfigOf(sweep.cfg, sweep.i)),
                    sweep.cfg.dev_pcts[sweep.i],
                    sweep.cfg.cooldown_days[sweep.j], sweep.sig_count))
    /\ UNCHANGED <<df, series, call, pos, bt, metrics, stat, summary, signals,
                   fwd_ret,
                   favorites, sidebar>>

NextSweep ==
    \/ \E cfg \in SweepConfigs : RunSweep(cfg)
    \/ SweepThreshold
    \/ SweepCell

SpecSweep == InitSweep /\ [][NextSweep]_vars

\* run_sweep has ended, by returning its table or by raising
SweepEnded == sweep.pc \in {"returned", "raised"}

\* the grid in traversal order: thresholds outer, cooldowns inner
GridCell(cfg, k) ==
    <<cfg.dev_pcts[((k - 1) \div Len(cfg.cooldown_days)) + 1],
      cfg.cooldown_days[((k - 1) % Len(cfg.cooldown_days)) + 1]>>

ValidGrid(cfg) ==
    /\ Len(df.price) >= 1
    /\ \A j \in Idx(cfg.cooldown_days) : cfg.cooldown_days[j] >= 1

\* C4: on a non-empty price series with all cooldowns >= 1, run_sweep returns
\* exactly |T| x |C| rows, one per pair with its dev_pct and cooldown_days;
\* thresholds {1,2,3} and cooldowns {5,10} give 6 rows.
C4_GridComplete ==
    (SweepEnded /\ ValidGrid(sweep.cfg)) =>
        LET T == sweep.cfg.dev_pcts
            C == sweep.cfg.cooldown_days
        IN  /\ sweep.pc = "returned"
            /\ Len(sweep.results) = Len(T) * Len(C)
            /\ \A i \in Idx(T), j \in Idx(C) :
                  \E k \in Idx(sweep.results) :
                      /\ sweep.results[k].dev_pct = T[i]
                      /\ sweep.results[k].cooldown_days = C[j]
            /\ (T = <<1, 2, 3>> /\ C = <<5, 10>>) => Len(sweep.results) = 6

\* C5: the rows come in traversal order: row k (0-based) carries threshold
\* T[k div |C|] and cooldown C[k mod |C|].
C5_TraversalOrder ==
    (SweepEnded /\ ValidGrid(sweep.cfg)) =>
        LET T == sweep.cfg.dev_pcts
            C == sweep.cfg.cooldown_days
        IN  \A k \in 1 .. Len(T) * Len(C) :
                /\ k \in Idx(sweep.results)
                /\ <<sweep.results[k].dev_pct, sweep.results[k].cooldown_days>>
                      = GridCell(sweep.cfg, k)

-----------------------------------------------------------------------------
(* The indicator specification: compute_signals on every price table of up *)
(* to MaxLen rows, on the seven sessions of the worked scenario and on     *)
(* tables without a price column, under every window and threshold.        *)

\* the seven sessions of the worked scenario
ScenarioPrices ==
    <<FInt(100), FInt(102), FInt(99), FInt(101), FInt(95), FInt(105),
      FInt(110)>>

\* tables that lack the price column
NoPriceFrames ==
    {[columns |-> {}, price |-> <<>>, signal |-> <<>>],
     [columns |-> {"signal"}, price |-> <<>>, signal |-> <<"True">>]}

\* deviation thresholds: 3%, and the 20% a price of 3 after one of 2 (or 2
\* after 3) deviates from its two-session average
Thresholds == {FDiv(FInt(3), FInt(100)), FDiv(FInt(1), FInt(5))}

IndicatorConfigs ==
    {[vol_window |-> v, ma_short |-> a, ma_long |-> b,
      deviation_threshold |-> th] :
        v \in {-1, 0, 2, DefaultVolWindow}, a \in -1 .. 2,
        b \in -1 .. MaxLen, th \in Thresholds}

InitSignals ==
    /\ df \in UNION {PriceFrames(n) : n \in 0 .. MaxLen} \cup NoPriceFrames
                \cup {[columns |-> {"Adj Close"}, price |-> ScenarioPrices,
                       signal |-> <<>>]}
    /\ series = <<>>
    /\ call = NoCall
    /\ pos = NoPos
    /\ bt = NoFrame("none")
    /\ metrics = NoMetrics
    /\ stat = <<>>
    /\ summary = NoSummary("none")
    /\ signals = NoSignals("none")
    /\ fwd_ret = NoSeries
    /\ favorites = DefaultFavorites
    /\ sidebar = NoSidebar
    /\ sweep = NoSweep

\* signals = compute_signals(df, cfg)
ComputeSignals(cfg) ==
    /\ call.op = "none"
    /\ call' = [NoCall EXCEPT !.op = "compute_signals", !.cfg = cfg]
    /\ signals' = compute_signals(df, cfg)
    /\ df' = compute_signals_df(df, cfg)
    /\ UNCHANGED <<series, pos, bt, metrics, stat, summary, sweep, fwd_ret,
                   favorites, sidebar>>

NextSignals == \E cfg \in IndicatorConfigs : ComputeSignals(cfg)

SpecSignals == InitSignals /\ [][NextSignals]_vars

\* compute_signals returned an Indicator Frame
SignalsReturned == call.op = "compute_signals" /\ signals.err = "none"

\* C11: in the frame compute_signals returns, on every row, long_ma is
\* undefined on the first long_window - 1 rows and the window's mean after
\* them; deviation = (price - long_ma) / long_ma, undefined exactly where
\* long_ma is; signal is a boolean wherever deviation is defined and is true
\* iff |deviation| > deviation_threshold, strictly.
C11_IndicatorInvariant ==
    (SignalsReturned /\ call.cfg.ma_long >= 1) =>
        LET w  == call.cfg.ma_long
            th == call.cfg.deviation_threshold
        IN  /\ Len(signals.deviation) = Len(df.price)
            /\ Len(signals.signal) = Len(df.price)
            /\ \A i \in Idx(df.price) :
                  LET ma  == signals.ma_long[i]
                      dev == signals.deviation[i]
                  IN  /\ IsNaN(ma) <=> i <= w - 1
                      /\ i >= w =>
                            ma = FDiv(SeriesSum(SubSeq(df.price, i - w + 1, i)),
                                      FInt(w))
                      /\ IsNaN(dev) <=> IsNaN(ma)
                      /\ ~IsNaN(ma) =>
                            /\ dev = FDiv(FSub(df.price[i], ma), ma)
                            /\ signals.signal[i] \in {"True", "False"}
                      /\ signals.signal[i] = "True" <=>
                            (~IsNaN(dev) /\ FLess(th, <<Abs(dev[1]), dev[2]>>))

\* a two-session average: the first row has no average and no deviation, the
\* second deviates by exactly the threshold and carries no signal
C11_Witness ==
    /\ SignalsReturned
    /\ call.cfg.ma_long = 2
    /\ Len(df.price) >= 2
    /\ IsNaN(signals.deviation[1])
    /\ ~IsNaN(signals.deviation[2])
    /\ FAbs(signals.deviation[2]) = call.cfg.deviation_threshold
    /\ signals.signal[2] = "False"

\* the worked scenario has been computed: seven sessions, ma_long = 3,
\* deviation_threshold = 0.03
ScenarioComputed ==
    /\ call.op = "compute_signals"
    /\ df.price = ScenarioPrices
    /\ call.cfg.ma_long = 3
    /\ call.cfg.deviation_threshold = FDiv(FInt(3), FInt(100))
    /\ ~RollingError(call.cfg.vol_window)
    /\ ~RollingError(call.cfg.ma_short)

\* C12: on prices [100, 102, 99, 101, 95, 105, 110] with ma_long = 3 and
\* deviation_threshold = 0.03, long_ma is undefined at indices 0 and 1 and is
\* mean(100, 102, 99) at index 2; signal is false at indices 2 and 3 and true
\* at indices 4, 5 and 6, where |price - long_ma| > 0.03 * long_ma.
C12_Scenario ==
    ScenarioComputed =>
        /\ signals.err = "none"
        /\ IsNaN(signals.ma_long[1]) /\ IsNaN(signals.ma_long[2])
        /\ signals.ma_long[3] = FDiv(FInt(100 + 102 + 99), FInt(3))
        /\ signals.signal[3] = "False" /\ signals.signal[4] = "False"
        /\ \A i \in {5, 6, 7} :
              /\ signals.signal[i] = "True"
              /\ FLess(FMul(call.cfg.deviation_threshold, signals.ma_long[i]),
                       FAbs(FSub(df.price[i], signals.ma_long[i])))
        /\ \A i \in {3, 4} :
              FLess(FAbs(FSub(df.price[i], signals.ma_long[i])),
                    FMul(call.cfg.deviation_threshold, signals.ma_long[i]))

C12_Witness ==
    /\ ScenarioComputed
    /\ signals.err = "none"
    /\ Len(signals.signal) = 7
    /\ signals.signal[4] = "False"
    /\ signals.signal[5] = "True"
    /\ FLess(signals.deviation[5], Zero)
    /\ FLess(Zero, signals.deviation[7])

\* C15: compute_signals fails, returning no Indicator Frame, whenever
\* vol_window, ma_short or ma_long is not a positive integer or the table
\* lacks the price column.
C15_ConfigurationErrors ==
    (call.op = "compute_signals"
       /\ (\/ call.cfg.vol_window <= 0
           \/ call.cfg.ma_short <= 0
           \/ call.cfg.ma_long <= 0
           \/ "Adj Close" \notin df.columns))
        => signals.err # "none"

-----------------------------------------------------------------------------
(* The call specification: a caller holds a table of up to MaxCallLen rows *)
(* that may lack either column and calls one function of the core on it,   *)
(* with any parameter; it may summarize the frame a backtest returned.     *)

InitCalls ==
    /\ df \in UNION {Frames(n) \cup PriceFrames(n) : n \in 0 .. MaxCallLen}
                \cup NoPriceFrames
    /\ series = <<>>
    /\ call = NoCall
    /\ pos = NoPos
    /\ bt = NoFrame("none")
    /\ metrics = NoMetrics
    /\ stat = <<>>
    /\ summary = NoSummary("none")
    /\ signals = NoSignals("none")
    /\ fwd_ret = NoSeries
    /\ favorites = DefaultFavorites
    /\ sidebar = NoSidebar
    /\ sweep = NoSweep

\* compute_forward_returns(df["Adj Close"], horizon_days)
ComputeForwardReturns(horizon_days) ==
    /\ call.op = "none"
    /\ "Adj Close" \in df.columns
    /\ call' = [NoCall EXCEPT !.op = "compute_forward_returns",
                              !.horizon_days = horizon_days]
    /\ fwd_ret' = compute_forward_returns(df.price, horizon_days)
    /\ UNCHANGED <<df, series, pos, bt, metrics, stat, summary, sweep,
                   signals,
                   favorites, sidebar>>

NextCalls ==
    \/ \E cd \in CooldownArgs : "signal" \in df.columns /\ BuildPosition(cd)
    \/ \E cd \in CooldownArgs : ComputeEquityCurves(cd)
    \/ SummarizeBacktest
    \/ \E h \in HorizonArgs : ComputeForwardReturns(h)
    \/ \E h \in HorizonArgs : SummarizeSignalPerformance(h)
    \/ \E cfg \in IndicatorConfigs : ComputeSignals(cfg)
    \/ \E cfg \in SweepConfigs : call.op = "none" /\ RunSweep(cfg)
    \/ SweepThreshold
    \/ SweepCell

SpecCalls == InitCalls /\ [][NextCalls]_vars

\* C13: a non-positive parameter is rejected, never clamped:
\* build_position_from_signal and compute_equity_curves with cooldown_days
\* <= 0, compute_forward_returns and summarize_signal_performance with
\* horizon_days <= 0, each raise and return no series, curve or summary.
C13_NonPositiveRejected ==
    /\ (call.op = "build_position_from_signal" /\ call.cooldown_days <= 0)
          => (pos.err # "none" /\ pos.val = <<>>)
    /\ (call.op = "compute_equity_curves" /\ call.cooldown_days <= 0)
          => (bt.err # "none" /\ bt.position = <<>>
                /\ bt.bh_equity = <<>> /\ bt.strat_equity = <<>>)
    /\ (call.op = "compute_forward_returns" /\ call.horizon_days <= 0)
          => (fwd_ret.err # "none" /\ fwd_ret.val = <<>>)
    /\ (call.op = "summarize_signal_performance" /\ call.horizon_days <= 0)
          => (summary.err # "none" /\ summary.group = <<>>
                /\ summary.count = <<>>)

\* a table with both columns, a signal on its first row and a second row to
\* put in cash, backtested with a cooldown of 0
C13_Witness ==
    /\ call.op = "compute_equity_curves"
    /\ call.cooldown_days = 0
    /\ df.columns = {"Adj Close", "signal"}
    /\ Len(df.price) = 2
    /\ df.signal[1] = "True"
    /\ bt.err = "ValueError"

\* a call that needs both columns was made on a table that lacks one
LacksColumn == ~({"Adj Close", "signal"} \subseteq df.columns)

\* C14: compute_equity_curves and summarize_signal_performance raise, with
\* no output computed, whenever the table lacks the price column or the
\* signal column; no other column stands in.
C14_SchemaErrors ==
    /\ (call.op = "compute_equity_curves" /\ LacksColumn)
          => (bt.err = "ValueError" /\ bt.daily_ret = <<>>
                /\ bt.position = <<>> /\ bt.bh_equity = <<>>)
    /\ (call.op = "summarize_signal_performance" /\ LacksColumn)
          => (summary.err = "ValueError" /\ summary.count = <<>>)

\* a price table of two rows without a signal column, backtested with a
\* positive cooldown
C14_Witness ==
    /\ call.op = "compute_equity_curves"
    /\ call.cooldown_days >= 1
    /\ df.columns = {"Adj Close"}
    /\ Len(df.price) = 2
    /\ bt.err = "ValueError"

\* a call leaves the table it was handed as it was: the caller's table for
\* compute_signals, compute_equity_curves, summarize_signal_performance and
\* run_sweep, the backtest frame for summarize_backtest
InputKept ==
    /\ df' = df
    /\ call'.op = "summarize_backtest" => bt' = bt

\* the frames of compute_signals and compute_equity_curves are new tables
\* on the index of the table they were computed from
FramesOnIndex ==
    /\ (call'.op = "compute_signals" /\ signals'.err = "none")
          => /\ Len(signals'.deviation) = Len(df.price)
             /\ Len(signals'.signal) = Len(df.price)
             /\ signals'.price = df.price
             /\ df.columns \subseteq signals'.columns
    /\ (call'.op = "compute_equity_curves" /\ bt'.err = "none")
          => /\ Len(bt'.position) = Len(df.price)
             /\ Len(bt'.strat_equity) = Len(df.price)

\* the summaries and the sweep table are on that index too
SummariesOnIndex ==
    /\ (call'.op = "summarize_signal_performance" /\ summary'.err = "none")
          => Len(summary'.group) = Len(df.price)
    /\ (call'.op = "summarize_backtest" /\ metrics'.err = "none")
          => Len(metrics'.table.portfolio) = Len(bt.position)
    /\ (call'.op = "run_sweep" /\ sweep'.pc = "returned")
          => Len(sweep'.results) = Len(df.price)

\* C19 as stated: the core never mutates its input: after compute_signals,
\* compute_equity_curves, summarize_signal_performance, summarize_backtest or
\* run_sweep returns or fails, the table handed in has the columns and values
\* it had; every result is a new derived table on the same timestamp index.
C19_NoMutation ==
    [][InputKept /\ FramesOnIndex /\ SummariesOnIndex]_vars

\* C19 amended: the input is never mutated; the frames of compute_signals
\* and compute_equity_curves are new tables on the same timestamp index (the
\* summaries and the sweep table have one row per group, portfolio or cell).
C19_NoMutationFrames ==
    [][InputKept /\ FramesOnIndex]_vars

\* compute_signals returned a frame whose signal column differs from the one
\* the caller's table had, and still has
C19_Witness ==
    /\ SignalsReturned
    /\ df.columns = {"Adj Close", "signal"}
    /\ Len(df.price) = 2
    /\ df.signal = <<"True", "NaN">>
    /\ signals.signal # df.signal
    /\ "deviation" \in signals.columns
    /\ "deviation" \notin df.columns

-----------------------------------------------------------------------------
(* The tables of the pipeline and of the sweep, column by column.          *)

\* summarize_backtest returned its metrics table
MetricsReturned == call.op = "summarize_backtest" /\ metrics.err = "none"

\* C16: each row of the metrics table carries total return, annualized
\* return, annualized volatility, max drawdown, Sharpe ratio and Calmar
\* ratio; calmar = annualized_return / |max_drawdown|, 0 when max_drawdown
\* is zero; total_return = equity[last] - 1.
C16_MetricsRow ==
    MetricsReturned =>
        LET t == metrics.table
        IN  /\ {"total_return", "ann_return", "ann_vol", "max_drawdown",
                "sharpe", "calmar"} \subseteq DOMAIN t
            /\ t.total_return[1] = FSub(bt.bh_equity[Len(bt.bh_equity)], One)
            /\ t.total_return[2] =
                  FSub(bt.strat_equity[Len(bt.strat_equity)], One)
            /\ \A k \in 1 .. 2 :
                  t.calmar[k] =
                      IF t.max_drawdown[k] = Zero THEN Zero
                      ELSE [num |-> t.ann_return[k],
                            den |-> FAbs(t.max_drawdown[k])]

\* C17: the frame of compute_equity_curves holds, on the index of its input,
\* the position, both return series, both equity curves and both drawdown
\* series, each drawdown series derived from its own equity curve.
C17_BacktestOutput ==
    HasFrame =>
        /\ {"position", "daily_ret", "strat_ret", "bh_equity", "strat_equity",
            "bh_dd", "strat_dd"} \subseteq DOMAIN bt
        /\ \A c \in {"position", "daily_ret", "strat_ret", "bh_equity",
                      "strat_equity", "bh_dd", "strat_dd"} :
              Len(bt[c]) = Len(df.price)
        /\ bt.bh_dd = Drawdown(bt.bh_equity)
        /\ bt.strat_dd = Drawdown(bt.strat_equity)

\* the metrics summarize_backtest computes for a cell of the grid
CellMetrics(cfg, i, j) ==
    summarize_backtest(
        compute_equity_curves(compute_signals(df, IndicatorConfigOf(cfg, i)),
                              cfg.cooldown_days[j])).table

\* C18: run_sweep emits for every cell of the grid a row with the cell's
\* coordinates, the signal count of its threshold (the same for every
\* cooldown), both portfolios' total return, Sharpe and max drawdown as
\* summarize_backtest computes them for the cell, delta_total_return =
\* strategy - buy-and-hold total return and delta_sharpe likewise.
C18_SweepRows ==
    (SweepEnded /\ ValidGrid(sweep.cfg)) =>
        LET T == sweep.cfg.dev_pcts
            C == sweep.cfg.cooldown_days
        IN  \A i \in Idx(T), j \in Idx(C) :
                LET k == (i - 1) * Len(C) + j
                    m == CellMetrics(sweep.cfg, i, j)
                IN  /\ k \in Idx(sweep.results)
                    /\ sweep.results[k].dev_pct = T[i]
                    /\ sweep.results[k].cooldown_days = C[j]
                    /\ sweep.results[k].signal_count =
                          Cardinality(Fired(compute_signals(df,
                              IndicatorConfigOf(sweep.cfg, i)).signal))
                    /\ sweep.results[k].signal_count =
                          sweep.results[(i - 1) * Len(C) + 1].signal_count
                    /\ sweep.results[k].strategy_total_return =
                          m.total_return[2]
                    /\ sweep.results[k].buyhold_total_return =
                          m.total_return[1]
                    /\ sweep.results[k].strategy_sharpe = m.sharpe[2]
                    /\ sweep.results[k].buyhold_sharpe = m.sharpe[1]
                    /\ sweep.results[k].strategy_max_dd = m.max_drawdown[2]
                    /\ "buyhold_max_dd" \in DOMAIN sweep.results[k]
                    /\ sweep.results[k].buyhold_max_dd = m.max_drawdown[1]
                    /\ sweep.results[k].delta_total_return =
                          FSub(m.total_return[2], m.total_return[1])
                    /\ sweep.results[k].delta_sharpe =
                          <<m.sharpe[2], m.sharpe[1]>>

\* cell (i, j) of the grid fails: its signals, its backtest, its summary or
\* the lookups in its metrics table raise
CellFails(cfg, i, j) ==
    LET sig_df == compute_signals(df, IndicatorConfigOf(cfg, i))
    IN  \/ sig_df.err # "none"
        \/ SweepCellResult(sig_df, cfg.dev_pcts[i], cfg.cooldown_days[j],
                           0).err # "none"

\* C21: sweep failures are fail-fast: if a cell of the grid fails (an empty
\* input series, a cooldown <= 0), run_sweep raises and returns no table; a
\* table it returns has a row for every cell, none left out.
C21_FailFast ==
    SweepEnded =>
        LET T == sweep.cfg.dev_pcts
            C == sweep.cfg.cooldown_days
        IN  /\ (\E i \in Idx(T), j \in Idx(C) : CellFails(sweep.cfg, i, j))
                  => (sweep.pc = "raised" /\ sweep.err # "none")
            /\ sweep.pc = "returned"
                  => (sweep.err = "none"
                        /\ Len(sweep.results) = Len(T) * Len(C))

\* a grid whose first cell has a cooldown of 0, on a table with prices:
\* build_position_from_signal raises and run_sweep hands the error on
C21_Witness ==
    /\ sweep.pc = "raised"
    /\ Len(df.price) >= 2
    /\ sweep.cfg.cooldown_days = <<0, 5>>
    /\ Len(sweep.cfg.dev_pcts) >= 2
    /\ sweep.err = "ValueError"
    /\ sweep.results = <<>>

-----------------------------------------------------------------------------
(* The position rule in its other forms.                                   *)

\* the OR of signal[t] over the rows t of a window that are rows of the series
SignalIn(signal, window) ==
    \E t \in window \cap Idx(signal) : signal[t] = "True"

\* position[tau] = 1 - is_cash[tau]
OneMinus(is_cash) == FSub(One, IF is_cash THEN One ELSE Zero)

\* C22 as stated: position[tau] = 1 - is_cash[tau], is_cash[tau] the OR of
\* signal[t] over the window (tau - cooldown_days, tau], open on the left
\* (tau - cooldown_days excluded) and with tau itself excluded.
C22_WindowedOr ==
    Built =>
        \A tau \in Idx(df.signal) :
            pos.val[tau] =
                OneMinus(SignalIn(df.signal,
                    (tau - call.cooldown_days + 1) .. (tau - 1)))

\* C22 amended: the window is [tau - cooldown_days, tau): closed on the left
\* (tau - cooldown_days included), tau itself excluded.
C22_WindowedOrClosedLeft ==
    Built =>
        /\ Len(pos.val) = Len(df.signal)
        /\ \A tau \in Idx(df.signal) :
              pos.val[tau] =
                  OneMinus(SignalIn(df.signal,
                      (tau - call.cooldown_days) .. (tau - 1)))

\* a signal whose only effect on row tau comes from the left end of the
\* window: it fired cooldown_days rows earlier and nothing fired since
C22_Witness ==
    /\ Built
    /\ call.cooldown_days >= 2
    /\ \E tau \in Idx(df.signal) :
          /\ tau - call.cooldown_days \in Fired(df.signal)
          /\ ~SignalIn(df.signal, (tau - call.cooldown_days + 1) .. tau)
          /\ pos.val[tau] = Zero
          /\ tau < Len(df.signal)
          /\ pos.val[tau + 1] = One

\* C23: cooldown monotonicity: every row in cash under a cooldown c1 is in
\* cash under every cooldown c2 >= c1 >= 1, and row 0 is invested under
\* every cooldown.
C23_CooldownMonotone ==
    Built =>
        /\ \A c1 \in 1 .. call.cooldown_days :
              Cash(build_position_from_signal(df.signal, c1).val)
                  \subseteq Cash(pos.val)
        /\ Len(df.signal) >= 1 => pos.val[1] = One

\* a signal on row 0 and a longer cooldown that puts strictly more rows in
\* cash than a shorter one
C23_Witness ==
    /\ Built
    /\ call.cooldown_days = 3
    /\ Len(df.signal) >= 4
    /\ df.signal[1] = "True"
    /\ pos.val[1] = One
    /\ Cash(build_position_from_signal(df.signal, 1).val) # {}
    /\ Cash(build_position_from_signal(df.signal, 1).val) # Cash(pos.val)

\* C24: when no signal fires on any row but possibly the last (a missing
\* signal cell being no signal), compute_equity_curves gives position = 1,
\* strat_ret = daily_ret and strat_equity = bh_equity on every row, for every
\* cooldown_days >= 1: a signal on the last row moves no position.
C24_NoSignalNoEffect ==
    (HasFrame /\ call.cooldown_days >= 1
       /\ \A t \in Idx(df.signal) : df.signal[t] = "True" => t = Len(df.signal))
        => /\ Len(bt.position) = Len(df.price)
           /\ \A t \in Idx(df.price) :
                 /\ bt.position[t] = One
                 /\ bt.strat_ret[t] = bt.daily_ret[t]
                 /\ bt.strat_equity[t] = bt.bh_equity[t]

\* missing and false cells, a signal on the last row only, and prices that
\* move, so that the curves are not flat
C24_Witness ==
    /\ HasFrame
    /\ call.cooldown_days >= 1
    /\ Len(df.price) = 3
    /\ df.signal = <<"NaN", "False", "True">>
    /\ bt.daily_ret[2] # Zero
    /\ bt.daily_ret[3] # Zero
    /\ bt.position = <<One, One, One>>
    /\ bt.strat_equity = bt.bh_equity

-----------------------------------------------------------------------------
(* The favorites specification: the sidebar of the weather app (app.py     *)
(* lines 128-157). Every press of a button runs the script once, with the  *)
(* text typed and the favorite selected at that moment.                    *)

\* what a user types: blanks and letters, a default city, a padded one
Texts ==
    SeqsUpTo({" ", "a"}, MaxTextLen)
        \cup {DefaultFavorites[1],
               <<" ">> \o DefaultFavorites[3] \o <<" ">>}

InitFavorites ==
    /\ df = [columns |-> {}, price |-> <<>>, signal |-> <<>>]
    /\ series = <<>>
    /\ call = NoCall
    /\ pos = NoPos
    /\ bt = NoFrame("none")
    /\ metrics = NoMetrics
    /\ stat = <<>>
    /\ summary = NoSummary("none")
    /\ signals = NoSignals("none")
    /\ fwd_ret = NoSeries
    /\ favorites = DefaultFavorites
    /\ sidebar = NoSidebar
    /\ sweep = NoSweep

\* "Add to favorites" is pressed with add_city in the text input
AddToFavorites(add_city) ==
    /\ Len(add_to_favorites(favorites, add_city).favorites) <= MaxFavorites
    /\ favorites' = add_to_favorites(favorites, add_city).favorites
    /\ sidebar' = [sidebar EXCEPT
                      !.button = "Add to favorites",
                      !.add_city = add_city,
                      !.message = add_to_favorites(favorites, add_city).message]
    /\ UNCHANGED <<df, series, call, pos, bt, metrics, stat, summary, sweep,
                   signals, fwd_ret>>

\* "Remove selected favorite" is pressed with fav selected in the quick pick
RemoveSelectedFavorite(fav) ==
    /\ InList(fav, favorites)
    /\ favorites' = remove_selected_favorite(favorites, fav).favorites
    /\ sidebar' = [sidebar EXCEPT
                      !.button = "Remove selected favorite",
                      !.fav = fav,
                      !.message =
                          remove_selected_favorite(favorites, fav).message]
    /\ UNCHANGED <<df, series, call, pos, bt, metrics, stat, summary, sweep,
                   signals, fwd_ret>>

NextFavorites ==
    \/ \E add_city \in Texts : AddToFavorites(add_city)
    \/ \E k \in 1 .. MaxFavorites :
          k \in Idx(favorites) /\ RemoveSelectedFavorite(favorites[k])

SpecFavorites == InitFavorites /\ [][NextFavorites]_vars

NoDuplicates(favs) == \A k, l \in Idx(favs) : favs[k] = favs[l] => k = l

Blank(text) == \A k \in Idx(text) : text[k] = " "

\* the text is the name, with blanks before and after it at most
NameTyped(text, name) ==
    \E i \in 0 .. Len(text) :
        /\ i + Len(name) <= Len(text)
        /\ SubSeq(text, i + 1, i + Len(name)) = name
        /\ Blank(SubSeq(text, 1, i))
        /\ Blank(SubSeq(text, i + Len(name) + 1, Len(text)))

\* C25: from the three distinct default cities on, after every "Add to
\* favorites" and "Remove selected favorite" the list is not empty and has
\* no duplicates; adding a blank or a name already in the list, and removing
\* when one favorite remains, leave the list as it was.
C25_Favorites ==
    [][/\ favorites # <<>> /\ NoDuplicates(favorites)
       /\ favorites' # <<>> /\ NoDuplicates(favorites')
       /\ (sidebar'.button = "Add to favorites"
             /\ (\/ Blank(sidebar'.add_city)
                 \/ \E k \in Idx(favorites) :
                       NameTyped(sidebar'.add_city, favorites[k])))
            => favorites' = favorites
       /\ (sidebar'.button = "Remove selected favorite" /\ Len(favorites) = 1)
            => favorites' = favorites]_vars

\* the defaults are gone, one added city is left, and the last press of
\* "Remove selected favorite" was refused
C25_Witness ==
    /\ Len(favorites) = 1
    /\ ~InList(favorites[1], DefaultFavorites)
    /\ sidebar.button = "Remove selected favorite"
    /\ sidebar.fav = favorites[1]
    /\ sidebar.message = "Keep at least one favorite."

=============================================================================
